---- MODULE Spec2Model ----
(***************************************************************************)
(* Model of the canboat -> DBC conversion engine                           *)
(* (dbc-exporter/src/dbc_exporter/input/canboat.py).                       *)
(*                                                                         *)
(* The state machines of this module:                                      *)
(*   SpecFrame     the frame identifier encoder applied to PGN numbers     *)
(*   SpecIds       get_unique_id applied to a sequence of raw field Ids    *)
(*                 against one shared reserved set that starts empty       *)
(*   SpecIdsAny    the same against a reserved set that holds any Ids      *)
(*   Spec          the CanboatReader.messages generator over a loaded      *)
(*                 list of PGN records                                     *)
(*   SpecVariants  the generator over a group of three variants            *)
(*   SpecReads     get_database called more than once on one reader,       *)
(*                 over records whose PGN numbers come in any order        *)
(*                                                                         *)
(* Python values are represented as follows.                               *)
(*   dict            a record; an optional key is a missing record field   *)
(*   None / object   the empty sequence <<>> / a one-element sequence      *)
(*   str             a string, f-strings are built with \o and ToString    *)
(***************************************************************************)
EXTENDS Integers, Sequences, FiniteSets, TLC

VARIABLES
    pgn_args,       \* SpecFrame: the PGN numbers handed to the encoder
    frame_ids,      \* SpecFrame: the identifiers returned so far
    raw_ids,        \* SpecIds: the raw field Ids, in field order
    reserved_ids,   \* SpecIds: the shared reserved set
    unique_ids,     \* SpecIds: the Ids returned so far
    _json_data,     \* Spec: CanboatReader._json_data, the loaded input
    pgns,           \* Spec: the dict of messages(), PGN number -> variants
    pc,             \* Spec: where the messages() generator stands
    group_idx,      \* Spec: the item of pgns the generator's loop is at
    yielded,        \* Spec: the messages yielded so far, in order
    outcomes,       \* Spec: what each loop iteration did with its group
    databases       \* SpecReads: the Database objects get_database returned

vars == <<pgn_args, frame_ids, raw_ids, reserved_ids, unique_ids,
          _json_data, pgns, pc, group_idx, yielded, outcomes, databases>>

frameVars == <<pgn_args, frame_ids>>
idVars == <<raw_ids, reserved_ids, unique_ids>>
convVars == <<_json_data, pgns, pc, group_idx, yielded, outcomes, databases>>

(***************************************************************************)
(* Bounds                                                                  *)
(***************************************************************************)
\* PGN numbers are drawn with bits 16.. ranging over 0..MaxPgnHigh
MaxPgnHigh == 4
\* number of get_unique_id calls against one reserved set
MaxCalls == 4
\* number of fields of one PGN definition
MaxFields == 2

(***************************************************************************)
(* Integer bit operations of Python on non-negative integers               *)
(***************************************************************************)
RECURSIVE Pow2(_)
Pow2(n) == IF n = 0 THEN 1 ELSE 2 * Pow2(n - 1)

\* a >> n
ShiftRight(a, n) == a \div Pow2(n)

\* a << n
ShiftLeft(a, n) == a * Pow2(n)

RECURSIVE BitAnd(_, _)
\* a & b
BitAnd(a, b) ==
    IF a = 0 \/ b = 0 THEN 0
    ELSE (IF a % 2 = 1 /\ b % 2 = 1 THEN 1 ELSE 0)
         + 2 * BitAnd(a \div 2, b \div 2)

RECURSIVE BitOr(_, _)
\* a | b
BitOr(a, b) ==
    IF a = 0 THEN b
    ELSE IF b = 0 THEN a
    ELSE (IF a % 2 = 1 \/ b % 2 = 1 THEN 1 ELSE 0)
         + 2 * BitOr(a \div 2, b \div 2)

(***************************************************************************)
(* CanboatReader._pgn_to_frame_id                                          *)
(***************************************************************************)
\* the encoder with the data page bit left out of the identifier
PgnToFrameIdNoDataPage(pgn) ==
    LET priority == 6
        reserved == 0
        pdu_format == BitAnd(ShiftRight(pgn, 8), 255)
        pdu_specific == BitAnd(pgn, 255)
        source_address == 254
    IN BitOr(BitOr(BitOr(BitOr(ShiftLeft(priority, 26),
                                ShiftLeft(reserved, 25)),
                          ShiftLeft(pdu_format, 16)),
                    ShiftLeft(pdu_specific, 8)),
             source_address)

\* the encoder with the PDU format shifted into the PDU specific byte
PgnToFrameIdFormatShift(pgn) ==
    LET priority == 6
        reserved == 0
        data_page == BitAnd(ShiftRight(pgn, 16), 1)
        pdu_format == BitAnd(ShiftRight(pgn, 8), 255)
        pdu_specific == BitAnd(pgn, 255)
        source_address == 254
    IN BitOr(BitOr(BitOr(BitOr(BitOr(ShiftLeft(priority, 26),
                                      ShiftLeft(reserved, 25)),
                                ShiftLeft(data_page, 24)),
                          ShiftLeft(pdu_format, 8)),
                    ShiftLeft(pdu_specific, 8)),
             source_address)

_pgn_to_frame_id(pgn) ==
    LET priority == 6
        reserved == 0
        data_page == BitAnd(ShiftRight(pgn, 16), 1)
        pdu_format == BitAnd(ShiftRight(pgn, 8), 255)
        pdu_specific == BitAnd(pgn, 255)
        source_address == 254
        priority_bits == ShiftLeft(priority, 26)
        reserved_bits == ShiftLeft(reserved, 25)
        data_page_bits == ShiftLeft(data_page, 24)
        pdu_format_bits == ShiftLeft(pdu_format, 16)
        pdu_specific_bits == ShiftLeft(pdu_specific, 8)
        source_address_bits == source_address
    IN BitOr(BitOr(BitOr(BitOr(BitOr(priority_bits, reserved_bits),
                                data_page_bits),
                          pdu_format_bits),
                    pdu_specific_bits),
             source_address_bits)

(***************************************************************************)
(* get_unique_id                                                           *)
(***************************************************************************)
RECURSIVE FirstFreeSuffix(_, _, _)
\* the while loop of get_unique_id, entered with counter i
FirstFreeSuffix(id_, i, reserved) ==
    LET new_id == id_ \o "_" \o ToString(i)
    IN IF new_id \notin reserved
       THEN new_id
       ELSE FirstFreeSuffix(id_, i + 1, reserved)

\* get_unique_id returning the first suffixed Id without re-checking it
GetUniqueIdNoRecheck(id_, reserved) ==
    LET new_id == IF id_ \notin reserved THEN id_ ELSE id_ \o "_" \o ToString(1)
    IN [id |-> new_id, reserved |-> reserved \cup {new_id}]

\* get_unique_id suffixing every Id, reserved or not
GetUniqueIdAlwaysSuffix(id_, reserved) ==
    LET new_id == FirstFreeSuffix(id_, 1, reserved)
    IN [id |-> new_id, reserved |-> reserved \cup {new_id}]

\* get_unique_id with the suffix counter starting at 0
GetUniqueIdFromZero(id_, reserved) ==
    IF id_ \notin reserved
    THEN [id |-> id_, reserved |-> reserved \cup {id_}]
    ELSE LET new_id == FirstFreeSuffix(id_, 0, reserved)
         IN [id |-> new_id, reserved |-> reserved \cup {new_id}]

\* the returned Id and the reserved set as the call leaves it
get_unique_id(id_, reserved) ==
    IF id_ \notin reserved
    THEN [id |-> id_, reserved |-> reserved \cup {id_}]
    ELSE LET new_id == FirstFreeSuffix(id_, 1, reserved)
         IN [id |-> new_id, reserved |-> reserved \cup {new_id}]

(***************************************************************************)
(* Python helpers                                                          *)
(***************************************************************************)
None == <<>>
Some(x) == <<x>>

\* the outcome of a call: a returned object, a returned None, or an
\* exception that leaves the call
Return(x) == [kind |-> "msg", msg |-> x]
ReturnNone == [kind |-> "none"]
Raise(exc) == [kind |-> "raise", exc |-> exc]

\* "key" in dict
HasKey(dict, key) == key \in DOMAIN dict

RECURSIVE SeqMax(_)
\* max(list) of a non-empty list of integers
SeqMax(list) ==
    IF Len(list) = 1 THEN list[1]
    ELSE LET m == SeqMax(Tail(list))
         IN IF list[1] >= m THEN list[1] ELSE m

(***************************************************************************)
(* Field and CanboatReader._field_to_signal                                *)
(*                                                                         *)
(* Of a field dict the model keeps Id, BitLength, BitOffset and the        *)
(* optional Match; Resolution, Signed, Units, Type, Description and        *)
(* EnumValues are absent from the modelled input, so scale is 1 and        *)
(* is_signed, unit and comment are None in every signal.                   *)
(***************************************************************************)
\* Field.__init__: the Field object and the reserved set as it leaves it
Field(field_dict, reserved_field_ids) ==
    LET u == get_unique_id(field_dict.Id, reserved_field_ids)
    IN [field |-> [id |-> u.id,
                   bit_length |-> field_dict.BitLength,
                   bit_offset |-> field_dict.BitOffset,
                   enum_values |-> None,
                   multiplexer |-> FALSE,
                   multiplexer_ids |-> None],
        reserved |-> u.reserved]

_field_to_signal(field, multiplexer_signal) ==
    [name |-> field.id,
     start |-> field.bit_offset,
     length |-> field.bit_length,
     byte_order |-> "little_endian",
     choices |-> field.enum_values,
     is_multiplexer |-> field.multiplexer,
     multiplexer_ids |-> field.multiplexer_ids,
     multiplexer_signal |-> multiplexer_signal]

(***************************************************************************)
(* CanboatReader._pgn_to_message                                           *)
(***************************************************************************)
\* the message built with the declared length as its payload length
PgnToMessageDeclaredLength(number, id_, description, length, signals) ==
    [frame_id |-> _pgn_to_frame_id(number),
     name |-> id_,
     length |-> length,
     signals |-> signals,
     comment |-> description,
     is_extended_frame |-> TRUE,
     protocol |-> "j1939"]

_pgn_to_message(number, id_, description, length, signals) ==
    [frame_id |-> _pgn_to_frame_id(number),
     name |-> id_,
     length |-> 8,
     signals |-> signals,
     comment |-> description,
     is_extended_frame |-> TRUE,
     protocol |-> "j1939"]

\* f"PGN_{pgn_number}_{raw_id}"
PgnId(pgn_number, raw_id) == "PGN_" \o ToString(pgn_number) \o "_" \o raw_id

(***************************************************************************)
(* CanboatReader._fast_to_message                                          *)
(***************************************************************************)
_fast_to_message(json_data) ==
    LET pgn_number == json_data.PGN
        pgn_id == PgnId(pgn_number, json_data.Id)
        pgn_description == json_data.Description
        pgn_length == json_data.Length
        first_field == [Id |-> "fastPacketSequenceCounter",
                        BitLength |-> 8, BitOffset |-> 0]
        data_field == [Id |-> "fastPacketData",
                       BitLength |-> 56, BitOffset |-> 8]
        f1 == Field(first_field, {})
        f2 == Field(data_field, f1.reserved)
        signals == << _field_to_signal(f1.field, None),
                      _field_to_signal(f2.field, None) >>
    IN Return(_pgn_to_message(pgn_number, pgn_id, pgn_description,
                              pgn_length, signals))

(***************************************************************************)
(* CanboatReader._single_to_message                                        *)
(***************************************************************************)
\* the length check with a strict comparison
ValidateDataLengthStrict(fields, pgn_length) ==
    LET last_field == fields[Len(fields)]
    IN last_field.BitOffset + last_field.BitLength < pgn_length * 8

\* called with a non-empty list only: fields[-1] of an empty list raises
_validate_data_length(fields, pgn_length) ==
    LET last_field == fields[Len(fields)]
    IN last_field.BitOffset + last_field.BitLength <= pgn_length * 8

RECURSIVE FieldsToSignals(_, _)
\* [self._field_to_signal(Field(field, reserved)) for field in fields]
FieldsToSignals(fields, reserved_field_ids) ==
    IF fields = <<>> THEN <<>>
    ELSE LET f == Field(Head(fields), reserved_field_ids)
         IN <<_field_to_signal(f.field, None)>>
            \o FieldsToSignals(Tail(fields), f.reserved)

\* the repeating tail is left as it is
_repeat(signals, repeating_fields) == signals

_single_to_message(json_data) ==
    LET pgn_number == json_data.PGN
        pgn_id == PgnId(pgn_number, json_data.Id)
        pgn_description == json_data.Description
        pgn_length == json_data.Length
    IN IF json_data.Fields = <<>>
       THEN Raise("IndexError")
       ELSE IF ~ _validate_data_length(json_data.Fields, pgn_length)
       THEN ReturnNone
       ELSE Return(_pgn_to_message(pgn_number, pgn_id, pgn_description,
                                   pgn_length,
                                   FieldsToSignals(json_data.Fields, {})))

(***************************************************************************)
(* CanboatReader._json_to_message                                          *)
(***************************************************************************)
\* the branch taken when the length test is >= 8
JsonPathFastFrom8(json_data) ==
    LET pgn_type == IF HasKey(json_data, "Type") THEN Some(json_data.Type) ELSE None
        pgn_length == json_data.Length
    IN IF pgn_type = Some("ISO") THEN "iso"
       ELSE IF pgn_type = Some("Fast") \/ pgn_length >= 8 THEN "fast"
       ELSE "single"

\* the branch _json_to_message takes
JsonPath(json_data) ==
    LET pgn_type == IF HasKey(json_data, "Type") THEN Some(json_data.Type) ELSE None
        pgn_length == json_data.Length
    IN IF pgn_type = Some("ISO") THEN "iso"
       ELSE IF pgn_type = Some("Fast") \/ pgn_length > 8 THEN "fast"
       ELSE "single"

_json_to_message(json_data) ==
    CASE JsonPath(json_data) = "iso" -> ReturnNone
      [] JsonPath(json_data) = "fast" -> _fast_to_message(json_data)
      [] JsonPath(json_data) = "single" -> _single_to_message(json_data)

(***************************************************************************)
(* CanboatReader._validate_multiplex_field                                 *)
(***************************************************************************)
\* "Match" in variant["Fields"][0], for a variant with at least one field
HasMatch(variant) == HasKey(variant.Fields[1], "Match")

\* the Ids collected by the first loop
IgnoreVariants(variants) ==
    { variants[i].Id : i \in { k \in 1..Len(variants) : ~ HasMatch(variants[k]) } }

RECURSIVE ValidateRest(_, _, _, _)
\* the second loop, over variants[1:], entered with seen_values = seen
ValidateRest(ref_field0, rest, ignore_variants, seen) ==
    IF rest = <<>> THEN TRUE
    ELSE LET variant == Head(rest)
             variant_field0 == variant.Fields[1]
         IN IF variant.Id \in ignore_variants
            THEN ValidateRest(ref_field0, Tail(rest), ignore_variants, seen)
            ELSE IF ref_field0.Id # variant_field0.Id THEN FALSE
            ELSE IF variant_field0.Match \in seen THEN FALSE
            ELSE IF ref_field0.BitOffset # variant_field0.BitOffset THEN FALSE
            ELSE IF ref_field0.BitLength # variant_field0.BitLength THEN FALSE
            ELSE ValidateRest(ref_field0, Tail(rest), ignore_variants,
                              seen \cup {variant_field0.Match})

\* the validation without the test of the reference variant's Match
ValidateMultiplexFieldNoRefTest(variants) ==
    LET ref_field0 == variants[1].Fields[1]
        seen == IF HasMatch(variants[1]) THEN {ref_field0.Match} ELSE {}
    IN ValidateRest(ref_field0, Tail(variants), IgnoreVariants(variants), seen)

\* called with variants that all have a first field: variant["Fields"][0]
\* of an empty list raises
_validate_multiplex_field(variants) ==
    LET ignore_variants == IgnoreVariants(variants)
        ref == variants[1]
        ref_field0 == ref.Fields[1]
    IN IF ~ HasKey(ref_field0, "Match") THEN FALSE
       ELSE ValidateRest(ref_field0, Tail(variants), ignore_variants,
                         {ref_field0.Match})

(***************************************************************************)
(* CanboatReader._get_variant_signals                                      *)
(***************************************************************************)
\* f"m{variant_match}_{field.id}"
CaseId(variant_match, id) == "m" \o ToString(variant_match) \o "_" \o id

RECURSIVE CaseSignals(_, _, _, _)
\* the loop over variant["Fields"][1:]
CaseSignals(json_fields, variant_match, multiplexer_signal, reserved_field_ids) ==
    IF json_fields = <<>>
    THEN [signals |-> <<>>, reserved |-> reserved_field_ids]
    ELSE LET f == Field(Head(json_fields), reserved_field_ids)
             field == [f.field EXCEPT !.id = CaseId(variant_match, f.field.id),
                                      !.multiplexer_ids = <<variant_match>>]
             signal == _field_to_signal(field, Some(multiplexer_signal))
             rest == CaseSignals(Tail(json_fields), variant_match,
                                 multiplexer_signal, f.reserved)
         IN [signals |-> <<signal>> \o rest.signals, reserved |-> rest.reserved]

\* the signals of one variant and the reserved set as the call leaves it
_get_variant_signals(variant, multiplexer_signal, reserved_field_ids) ==
    IF ~ HasMatch(variant)
    THEN [signals |-> <<>>, reserved |-> reserved_field_ids]
    ELSE CaseSignals(Tail(variant.Fields), variant.Fields[1].Match,
                     multiplexer_signal, reserved_field_ids)

(***************************************************************************)
(* CanboatReader._variants_to_multiplexed_message                          *)
(***************************************************************************)
\* { variant["Fields"][0]["Match"]: variant["Id"] for variant in ... if
\*   "Match" in variant["Fields"][0] }: a later variant replaces the entry
\* of an earlier one with the same Match
MultiplexChoices(valid_variants) ==
    LET with == { i \in 1..Len(valid_variants) : HasMatch(valid_variants[i]) }
        MatchOf(i) == valid_variants[i].Fields[1].Match
        Last(m) == CHOOSE i \in with :
                       /\ MatchOf(i) = m
                       /\ \A j \in with : MatchOf(j) = m => j <= i
    IN [ m \in { MatchOf(i) : i \in with } |-> valid_variants[Last(m)].Id ]

RECURSIVE VariantsSignals(_, _, _)
\* the loop "for variant in valid_variants: signals.extend(...)"
VariantsSignals(valid_variants, multiplex_signal, reserved_field_ids) ==
    IF valid_variants = <<>> THEN <<>>
    ELSE LET r == _get_variant_signals(Head(valid_variants), multiplex_signal,
                                       reserved_field_ids)
         IN r.signals \o VariantsSignals(Tail(valid_variants), multiplex_signal,
                                         r.reserved)

\* v["Length"] < 8 and v["Type"] != "Fast": v["Type"] is read only when the
\* first test holds, and raises KeyError when the key is missing
TypeLookupRaises(v) == v.Length < 8 /\ ~ HasKey(v, "Type")
\* the filter letting a variant of exactly 8 bytes through
IsValidVariantUpTo8(v) ==
    v.Length <= 8 /\ (HasKey(v, "Type") => v.Type # "Fast")
IsValidVariant(v) == v.Length < 8 /\ v.Type # "Fast"

_variants_to_multiplexed_message(pgn_number, variants) ==
    IF \E i \in 1..Len(variants) : variants[i].Fields = <<>>
    THEN Raise("IndexError")
    ELSE IF ~ _validate_multiplex_field(variants)
    THEN ReturnNone
    ELSE IF \E i \in 1..Len(variants) : TypeLookupRaises(variants[i])
    THEN Raise("KeyError")
    ELSE
    LET pgn_id == "PGN_" \o ToString(pgn_number) \o "_multiplexed"
        pgn_description == "Multiplexed message"
        pgn_length == SeqMax([i \in 1..Len(variants) |-> variants[i].Length])
        valid_variants == SelectSeq(variants, IsValidVariant)
    IN IF Len(valid_variants) < Len(variants)
       THEN ReturnNone
       ELSE LET f == Field(valid_variants[1].Fields[1], {})
                multiplex_field ==
                    [f.field EXCEPT !.enum_values = Some(MultiplexChoices(valid_variants)),
                                    !.multiplexer = TRUE]
                multiplex_signal == _field_to_signal(multiplex_field, None)
                signals == <<multiplex_signal>>
                           \o VariantsSignals(valid_variants, multiplex_signal,
                                              f.reserved)
            IN Return(_pgn_to_message(pgn_number, pgn_id, pgn_description,
                                      pgn_length, signals))

(***************************************************************************)
(* CanboatReader.messages: grouping                                        *)
(***************************************************************************)
\* the dict of a read that starts from the dict the previous read left
KeptPgns(previous) == previous

\* line 83, pgns = {}: every read of the property starts a dict of its own,
\* whatever dict the previous read built
NewPgns(previous) == <<>>

RECURSIVE GroupIntoFront(_, _)
\* the grouping that puts the group of a new PGN number before the others
GroupIntoFront(dict, records) ==
    IF records = <<>> THEN dict
    ELSE LET pgn == Head(records)
             pgn_number == pgn.PGN
             at == { i \in 1..Len(dict) : dict[i].number = pgn_number }
         IN IF at = {}
            THEN GroupIntoFront(<<[number |-> pgn_number, variants |-> <<pgn>>]>>
                                \o dict,
                                Tail(records))
            ELSE LET i == CHOOSE k \in at : TRUE
                 IN GroupIntoFront([dict EXCEPT ![i].variants = Append(@, pgn)],
                                   Tail(records))

RECURSIVE GroupInto(_, _)
\* pgns.setdefault(pgn_number, []).append(pgn) for every record; the dict
\* is the sequence of its items in insertion order
GroupInto(dict, records) ==
    IF records = <<>> THEN dict
    ELSE LET pgn == Head(records)
             pgn_number == pgn.PGN
             at == { i \in 1..Len(dict) : dict[i].number = pgn_number }
         IN IF at = {}
            THEN GroupInto(Append(dict, [number |-> pgn_number,
                                         variants |-> <<pgn>>]),
                           Tail(records))
            ELSE LET i == CHOOSE k \in at : TRUE
                 IN GroupInto([dict EXCEPT ![i].variants = Append(@, pgn)],
                              Tail(records))

(***************************************************************************)
(* SpecFrame: the encoder applied to two PGN numbers, one after another    *)
(***************************************************************************)
\* bits 8..15 and bits 0..7 of the PGN numbers tried: the byte boundaries
\* and the bytes of PGN 127245 (0x1F10D)
PduFormatSamples == {0, 1, 241, 255}
PduSpecificSamples == {0, 13, 254, 255}

PgnSamples ==
    { hi * 65536 + pf * 256 + ps :
        hi \in 0..MaxPgnHigh, pf \in PduFormatSamples, ps \in PduSpecificSamples }

InitFrame ==
    /\ pgn_args \in PgnSamples \X PgnSamples
    /\ frame_ids = <<>>
    /\ raw_ids = <<>>
    /\ reserved_ids = {}
    /\ unique_ids = <<>>
    /\ _json_data = [PGNs |-> <<>>]
    /\ pgns = <<>>
    /\ pc = "idle"
    /\ group_idx = 0
    /\ yielded = <<>>
    /\ outcomes = <<>>
    /\ databases = <<>>

Encode ==
    /\ Len(frame_ids) < Len(pgn_args)
    /\ frame_ids' = Append(frame_ids, _pgn_to_frame_id(pgn_args[Len(frame_ids) + 1]))
    /\ UNCHANGED <<pgn_args, idVars, convVars>>

NextFrame == Encode

SpecFrame == InitFrame /\ [][NextFrame]_vars

(***************************************************************************)
(* SpecIds: Field.__init__ called for each raw Id of one message scope     *)
(***************************************************************************)
RawIds == {"x", "x_1", "y"}

RawIdLists == UNION { [1..n -> RawIds] : n \in 0..MaxCalls }

InitIds ==
    /\ raw_ids \in RawIdLists
    /\ reserved_ids = {}
    /\ unique_ids = <<>>
    /\ pgn_args = <<>>
    /\ frame_ids = <<>>
    /\ _json_data = [PGNs |-> <<>>]
    /\ pgns = <<>>
    /\ pc = "idle"
    /\ group_idx = 0
    /\ yielded = <<>>
    /\ outcomes = <<>>
    /\ databases = <<>>

\* Field.__init__, line 36: self.id = get_unique_id(field_dict["Id"], reserved)
FieldInit ==
    /\ Len(unique_ids) < Len(raw_ids)
    /\ LET r == get_unique_id(raw_ids[Len(unique_ids) + 1], reserved_ids)
       IN /\ unique_ids' = Append(unique_ids, r.id)
          /\ reserved_ids' = r.reserved
    /\ UNCHANGED <<raw_ids, frameVars, convVars>>

NextIds == FieldInit

SpecIds == InitIds /\ [][NextIds]_vars

(***************************************************************************)
(* SpecIdsAny: get_unique_id called against a reserved set that already    *)
(* holds any Ids, suffixed ones included                                   *)
(***************************************************************************)
ReservedIds == {"x", "x_1", "x_2", "y", "y_1"}

InitIdsAny ==
    /\ raw_ids \in RawIdLists
    /\ reserved_ids \in SUBSET ReservedIds
    /\ unique_ids = <<>>
    /\ pgn_args = <<>>
    /\ frame_ids = <<>>
    /\ _json_data = [PGNs |-> <<>>]
    /\ pgns = <<>>
    /\ pc = "idle"
    /\ group_idx = 0
    /\ yielded = <<>>
    /\ outcomes = <<>>
    /\ databases = <<>>

SpecIdsAny == InitIdsAny /\ [][NextIds]_vars

(***************************************************************************)
(* Spec: the input of the conversion                                       *)
(*                                                                         *)
(* A PGN record carries PGN, Id, Description, Length, Fields and, when     *)
(* present, Type.  pgns.json writes "Single" as the Type of single frame   *)
(* PGNs; the other tags are "Fast" and "ISO".                              *)
(***************************************************************************)
Absent == "absent"
NoMatch == -1

TypeTags == {Absent, "Single", "Fast", "ISO"}
Lengths == {7, 8, 9}
MatchValues == {NoMatch, 0, 1}

\* a field dict; the Match key is left out for NoMatch
FieldDef(id, bit_offset, bit_length, match) ==
    IF match = NoMatch
    THEN [Id |-> id, BitOffset |-> bit_offset, BitLength |-> bit_length]
    ELSE [Id |-> id, BitOffset |-> bit_offset, BitLength |-> bit_length,
          Match |-> match]

\* a PGN record; the Type key is left out for Absent
PgnDef(number, id, length, type, fields) ==
    IF type = Absent
    THEN [PGN |-> number, Id |-> id, Description |-> "PGN " \o id,
          Length |-> length, Fields |-> fields]
    ELSE [PGN |-> number, Id |-> id, Description |-> "PGN " \o id,
          Length |-> length, Type |-> type, Fields |-> fields]

\* fields of a single definition: they end at bit 8, 64 (a full frame) or 72
PlainFields ==
    { FieldDef(id, g[1], g[2], NoMatch) :
        id \in {"a", "a_1"}, g \in {<<0, 8>>, <<56, 8>>, <<56, 16>>} }

PlainFieldLists == UNION { [1..n -> PlainFields] : n \in 0..MaxFields }

\* the definitions of PGN 127245 tried as a group of one
SingleDefs ==
    { PgnDef(127245, "rudder", l, t, fs) :
        l \in Lengths, t \in TypeTags, fs \in PlainFieldLists }

\* first fields of a variant: the discriminator <<Id, BitOffset, BitLength>>
\* and the ones that differ from it in exactly one of the three
Discriminators ==
    { FieldDef(d[1], d[2], d[3], m) :
        d \in { <<"a", 0, 8>>, <<"m0_a", 0, 8>>, <<"a", 8, 8>>, <<"a", 0, 16>> },
        m \in MatchValues }

\* the fields after the first one: up to MaxFields - 1 fields named "a"
CaseFieldLists ==
    { [i \in 1..n |-> FieldDef("a", 16 + 8 * i, 8, NoMatch)] :
        n \in 0..(MaxFields - 1) }

VariantFieldLists ==
    {<<>>} \cup { <<d>> \o fs : d \in Discriminators, fs \in CaseFieldLists }

\* the definitions of PGN 130820 tried as the k-th variant of a group
VariantDefs(k) ==
    { PgnDef(130820, "variant" \o ToString(k), l, t, fs) :
        l \in {7, 8}, t \in TypeTags, fs \in VariantFieldLists }

\* the definition of PGN 59904 that stands before or after the group under test
OtherDefs ==
    { PgnDef(59904, "isoRequest", 3, "Single", <<FieldDef("pgn", 0, 24, NoMatch)>>) }

Inputs ==
    { <<r>> : r \in SingleDefs }
    \cup { <<r, o>> : r \in SingleDefs, o \in OtherDefs }
    \cup { <<o, r>> : o \in OtherDefs, r \in SingleDefs }
    \cup { <<v1, v2>> : v1 \in VariantDefs(1), v2 \in VariantDefs(2) }
    \cup { <<v1, v2, o>> :
             v1 \in VariantDefs(1), v2 \in VariantDefs(2), o \in OtherDefs }

(***************************************************************************)
(* Spec: CanboatReader.messages, read once by list(self.messages)          *)
(***************************************************************************)
Init ==
    /\ _json_data \in { [PGNs |-> input] : input \in Inputs }
    /\ pgns = <<>>
    /\ pc = "start"
    /\ group_idx = 0
    /\ yielded = <<>>
    /\ outcomes = <<>>
    /\ databases = <<>>
    /\ pgn_args = <<>>
    /\ frame_ids = <<>>
    /\ raw_ids = <<>>
    /\ reserved_ids = {}
    /\ unique_ids = <<>>

\* lines 83-86: the first next() builds the dict before it enters the loop
GroupPgns ==
    /\ pc = "start"
    /\ pgns' = GroupInto(NewPgns(pgns), _json_data.PGNs)
    /\ group_idx' = 1
    /\ pc' = "loop"
    /\ UNCHANGED <<_json_data, yielded, outcomes, databases, frameVars, idVars>>

\* one iteration of the loop, given the outcome of the call it makes
Iterate(number, path, result) ==
    /\ group_idx' = group_idx + 1
    /\ yielded' = IF result.kind = "msg" THEN Append(yielded, result.msg)
                  ELSE yielded
    /\ outcomes' = Append(outcomes,
                          [number |-> number, path |-> path,
                           kind |-> IF result.kind = "msg" THEN "yield"
                                    ELSE IF result.kind = "none" THEN "skip"
                                    ELSE "raise"])
    /\ pc' = IF result.kind = "raise" THEN "raised" ELSE "loop"
    /\ UNCHANGED <<_json_data, pgns, databases, frameVars, idVars>>

\* lines 89-95: a group of several variants
MultiplexGroup ==
    /\ pc = "loop"
    /\ group_idx <= Len(pgns)
    /\ LET pgn_number == pgns[group_idx].number
           variants == pgns[group_idx].variants
       IN /\ Len(variants) > 1
          /\ Iterate(pgn_number, "multiplexed",
                     _variants_to_multiplexed_message(pgn_number, variants))

\* lines 96-102: a group of one definition
SingleGroup ==
    /\ pc = "loop"
    /\ group_idx <= Len(pgns)
    /\ LET pgn_number == pgns[group_idx].number
           variants == pgns[group_idx].variants
       IN /\ Len(variants) <= 1
          /\ Iterate(pgn_number, JsonPath(variants[1]),
                     _json_to_message(variants[1]))

\* the loop is exhausted and the generator returns
StopIteration ==
    /\ pc = "loop"
    /\ group_idx > Len(pgns)
    /\ pc' = "done"
    /\ UNCHANGED <<_json_data, pgns, group_idx, yielded, outcomes, databases,
                   frameVars, idVars>>

Next == GroupPgns \/ MultiplexGroup \/ SingleGroup \/ StopIteration

Spec == Init /\ [][Next]_vars

(***************************************************************************)
(* SpecVariants: messages() over a group of three variants, two of which   *)
(* may carry the same variant Id                                           *)
(***************************************************************************)
\* the definitions of PGN 130820 tried as one of three variants
TripleDefs ==
    { PgnDef(130820, id, 7, "Single", <<FieldDef(d[1], d[2], d[3], m)>> \o fs) :
        id \in {"caseA", "caseB"},
        d \in { <<"a", 0, 8>>, <<"b", 0, 8>>, <<"a", 8, 16>> },
        m \in MatchValues,
        fs \in CaseFieldLists }

TripleInputs ==
    { <<v1, v2, v3>> : v1 \in TripleDefs, v2 \in TripleDefs, v3 \in TripleDefs }
    \cup { <<v1, v2, v3, o>> :
             v1 \in TripleDefs, v2 \in TripleDefs, v3 \in TripleDefs,
             o \in OtherDefs }

InitVariants ==
    /\ _json_data \in { [PGNs |-> input] : input \in TripleInputs }
    /\ pgns = <<>>
    /\ pc = "start"
    /\ group_idx = 0
    /\ yielded = <<>>
    /\ outcomes = <<>>
    /\ databases = <<>>
    /\ pgn_args = <<>>
    /\ frame_ids = <<>>
    /\ raw_ids = <<>>
    /\ reserved_ids = {}
    /\ unique_ids = <<>>

SpecVariants == InitVariants /\ [][Next]_vars

(***************************************************************************)
(* SpecReads: get_database called up to MaxRuns times on one reader, over  *)
(* up to MaxRecords records whose PGN numbers come in any order.  The      *)
(* checks strict=True makes cantools run on the messages are not part of   *)
(* this repository and are left out.                                       *)
(***************************************************************************)
MaxRecords == 3
MaxRuns == 2

\* the values datetime.datetime.now().isoformat() returns in two calls
Clock == {"2024-01-01T00:00:00", "2024-01-01T00:00:01"}

\* records of two PGN numbers; each has the fields "a" and "a", so every
\* message reserves the Ids "a" and "a_1"
OrderDefs ==
    { PgnDef(p, "def", 7, t,
             <<FieldDef("a", 0, 8, m), FieldDef("a", 8, 8, NoMatch)>>) :
        p \in {130820, 59904}, t \in {Absent, "Single", "ISO"},
        m \in MatchValues \ {NoMatch} }

OrderInputs == UNION { [1..n -> OrderDefs] : n \in 1..MaxRecords }

InitReads ==
    /\ _json_data \in { [PGNs |-> input] : input \in OrderInputs }
    /\ pgns = <<>>
    /\ pc = "start"
    /\ group_idx = 0
    /\ yielded = <<>>
    /\ outcomes = <<>>
    /\ databases = <<>>
    /\ pgn_args = <<>>
    /\ frame_ids = <<>>
    /\ raw_ids = <<>>
    /\ reserved_ids = {}
    /\ unique_ids = <<>>

\* lines 72-76: the Database built from list(self.messages) and the clock
Database(messages, now) ==
    [messages |-> messages, version |-> "Canboat export " \o now]

\* get_database returns once the generator is exhausted
ReturnDatabase ==
    /\ pc = "done"
    /\ \E now \in Clock :
         databases' = Append(databases, Database(yielded, now))
    /\ pc' = "returned"
    /\ UNCHANGED <<_json_data, pgns, group_idx, yielded, outcomes,
                   frameVars, idVars>>

\* get_database is called again: self.messages makes a new generator, which
\* has no messages yet; the dict of the previous generator is what NewPgns
\* is given
CallAgain ==
    /\ pc = "returned"
    /\ Len(databases) < MaxRuns
    /\ pc' = "start"
    /\ group_idx' = 0
    /\ yielded' = <<>>
    /\ outcomes' = <<>>
    /\ UNCHANGED <<_json_data, pgns, databases, frameVars, idVars>>

NextReads == Next \/ ReturnDatabase \/ CallAgain

SpecReads == InitReads /\ [][NextReads]_vars

(***************************************************************************)
(* Frame identifier encoder: claims                                        *)
(***************************************************************************)
\* the PGN numbers encoded so far
Encoded == 1..Len(frame_ids)

\* C1 (as stated): no two distinct PGN numbers of 0..0x3FFFF are mapped to
\* the same frame identifier
C1_InjectiveOver18Bits ==
    \A i, j \in Encoded :
        ( /\ pgn_args[i] \in 0..(Pow2(18) - 1)
          /\ pgn_args[j] \in 0..(Pow2(18) - 1)
          /\ pgn_args[i] # pgn_args[j] )
        => frame_ids[i] # frame_ids[j]

\* C1 (amended): no two distinct PGN numbers of 0..0x1FFFF are mapped to the
\* same frame identifier; bit 17 of the PGN number is not encoded
C1_InjectiveOver17Bits ==
    \A i, j \in Encoded :
        ( /\ pgn_args[i] \in 0..(Pow2(17) - 1)
          /\ pgn_args[j] \in 0..(Pow2(17) - 1)
          /\ pgn_args[i] # pgn_args[j] )
        => frame_ids[i] # frame_ids[j]

\* two PGN numbers below 0x20000 that differ only in the data page bit have
\* both been encoded
C1_Witness ==
    /\ Len(frame_ids) = 2
    /\ pgn_args[1] < 65536
    /\ pgn_args[2] = pgn_args[1] + 65536

\* C2: read from the most significant bit down, every identifier is
\* priority 6 (3 bits), reserved 0, data page = bit 16 of the PGN,
\* PDU format = bits 8..15, PDU specific = bits 0..7, source address 0xFE,
\* and it is below 2^29
C2_BitLayout ==
    \A i \in Encoded :
        LET p == pgn_args[i]
            f == frame_ids[i]
        IN /\ f < Pow2(29)
           /\ f \div Pow2(26) = 6
           /\ (f \div Pow2(25)) % 2 = 0
           /\ (f \div Pow2(24)) % 2 = (p \div Pow2(16)) % 2
           /\ (f \div Pow2(16)) % 256 = (p \div 256) % 256
           /\ (f \div 256) % 256 = p % 256
           /\ f % 256 = 254
           /\ f = 6 * Pow2(26) + ((p \div Pow2(16)) % 2) * Pow2(24)
                  + ((p \div 256) % 256) * Pow2(16) + (p % 256) * 256 + 254

\* PGN 127245 (Rudder) and a PGN number above 0x3FFFF have been encoded
C2_Witness ==
    /\ Len(frame_ids) = 2
    /\ pgn_args[1] = 127245
    /\ pgn_args[2] >= Pow2(18)
    /\ frame_ids[1] = 435228158

(***************************************************************************)
(* get_unique_id: claims                                                   *)
(***************************************************************************)
Returned == 1..Len(unique_ids)

\* C3: the Ids returned against one reserved set are pairwise distinct, and
\* after each call the reserved set is exactly the set of Ids returned so far
C3_UniqueIds ==
    /\ \A i, j \in Returned : i # j => unique_ids[i] # unique_ids[j]
    /\ reserved_ids = { unique_ids[i] : i \in Returned }

\* a raw Id has come three times, once after its own suffixed form was
\* reserved by a field of that name
C3_Witness ==
    /\ Len(unique_ids) >= 4
    /\ SubSeq(raw_ids, 1, 4) = <<"x", "x_1", "x", "x">>
    /\ SubSeq(unique_ids, 1, 4) = <<"x", "x_1", "x_2", "x_3">>

\* k is the first position at which its raw Id appears
FirstOccurrence(k) == \A j \in 1..(k - 1) : raw_ids[j] # raw_ids[k]

\* C4 (as stated): the field at the first position where a raw Id appears
\* is returned with exactly that raw Id, whatever was reserved before it
C4_FirstOccurrenceKept ==
    \A k \in Returned : FirstOccurrence(k) => unique_ids[k] = raw_ids[k]

\* C4 (amended): a field keeps its raw Id exactly when that Id was not yet
\* reserved when the field was processed; so the first occurrence of a raw
\* Id keeps it unless an earlier collision already produced that same Id
C4_KeptIffNotReserved ==
    \A k \in Returned :
        LET before == { unique_ids[j] : j \in 1..(k - 1) }
        IN /\ (unique_ids[k] = raw_ids[k]) <=> (raw_ids[k] \notin before)
           /\ (FirstOccurrence(k) /\ raw_ids[k] \notin before)
                  => unique_ids[k] = raw_ids[k]

\* a first occurrence has kept its Id after a suffixed Id was reserved
C4_Witness ==
    /\ Len(unique_ids) >= 3
    /\ SubSeq(raw_ids, 1, 3) = <<"x", "x", "y">>
    /\ SubSeq(unique_ids, 1, 3) = <<"x", "x_1", "y">>

(***************************************************************************)
(* CanboatReader.messages: claims                                          *)
(***************************************************************************)
\* the groups the loop has been through
Processed == 1..Len(outcomes)

\* the definitions of the k-th group
VariantsOf(k) == pgns[k].variants

\* the message the k-th iteration yielded, for an iteration that yielded
MessageOf(k) ==
    yielded[Cardinality({ j \in 1..k : outcomes[j].kind = "yield" })]

\* some yielded message carries the frame identifier of PGN number
EmittedFor(number) ==
    \E i \in 1..Len(yielded) : yielded[i].frame_id = _pgn_to_frame_id(number)

\* every definition of the list has at least one field
AllHaveFields(variants) == \A i \in 1..Len(variants) : variants[i].Fields # <<>>

\* the signals of a message that are flagged is_multiplexer
Multiplexers(msg) ==
    { i \in 1..Len(msg.signals) : msg.signals[i].is_multiplexer }

\* the k-th group is two variants whose first fields carry Match 0 and
\* Match 1 and agree in Id, BitOffset and BitLength
IsZeroOnePair(k) ==
    /\ Len(VariantsOf(k)) = 2
    /\ AllHaveFields(VariantsOf(k))
    /\ LET a == VariantsOf(k)[1].Fields[1]
           b == VariantsOf(k)[2].Fields[1]
       IN /\ HasKey(a, "Match") /\ a.Match = 0
          /\ HasKey(b, "Match") /\ b.Match = 1
          /\ a.Id = b.Id
          /\ a.BitOffset = b.BitOffset
          /\ a.BitLength = b.BitLength

\* C5: a group of two variants with Match 0 and Match 1 on one shared
\* discriminator yields a message with exactly one is_multiplexer signal
\* whose choice map is {0: Id of variant 0, 1: Id of variant 1}, whatever
\* the Length and Type of the variants
C5_ZeroOnePairMerges ==
    \A k \in Processed :
        IsZeroOnePair(k) =>
            /\ outcomes[k].kind = "yield"
            /\ LET msg == MessageOf(k)
               IN /\ Cardinality(Multiplexers(msg)) = 1
                  /\ \A i \in Multiplexers(msg) :
                         msg.signals[i].choices =
                             Some([ m \in {0, 1} |-> VariantsOf(k)[m + 1].Id ])

\* C6: no group makes the generator stop: an exception never leaves it and
\* when it returns the loop has been through every group
C6_NoGroupAborts ==
    /\ pc # "raised"
    /\ pc = "done" => Len(outcomes) = Len(pgns)

\* every definition of the k-th group has the Type tag "ISO"
IsIsoGroup(k) ==
    \A i \in 1..Len(VariantsOf(k)) :
        HasKey(VariantsOf(k)[i], "Type") /\ VariantsOf(k)[i].Type = "ISO"

\* C7: no message is emitted for a group whose Type tag is "ISO", be it one
\* definition or several variants
C7_IsoNeverEmitted ==
    \A k \in Processed :
        IsIsoGroup(k) =>
            /\ outcomes[k].kind # "yield"
            /\ ~ EmittedFor(pgns[k].number)

\* the definition has the Type tag tag
HasType(def, tag) == HasKey(def, "Type") /\ def.Type = tag

\* C8: a group of one definition that is not "ISO" and is "Fast" or longer
\* than 8 bytes yields a message of exactly two signals, 8 bits at offset 0
\* and then 56 bits at offset 8, whatever its field list; a definition of
\* Length 8 that is not "Fast" does not take the fast packet path
C8_FastPacketLayout ==
    \A k \in Processed :
        Len(VariantsOf(k)) = 1 =>
            LET def == VariantsOf(k)[1]
            IN /\ ( /\ ~ HasType(def, "ISO")
                    /\ (HasType(def, "Fast") \/ def.Length > 8) )
                  => /\ outcomes[k].path = "fast"
                     /\ outcomes[k].kind = "yield"
                     /\ LET signals == MessageOf(k).signals
                        IN /\ Len(signals) = 2
                           /\ signals[1].name = "fastPacketSequenceCounter"
                           /\ signals[1].start = 0
                           /\ signals[1].length = 8
                           /\ signals[2].name = "fastPacketData"
                           /\ signals[2].start = 8
                           /\ signals[2].length = 56
               /\ (def.Length = 8 /\ ~ HasType(def, "Fast"))
                  => outcomes[k].path # "fast"

\* a definition of Length 9 without a Type and without fields, and one whose
\* field overflows, have each given the two signal message
C8_Witness ==
    \E k \in Processed :
        /\ Len(VariantsOf(k)) = 1
        /\ VariantsOf(k)[1].Length = 9
        /\ ~ HasKey(VariantsOf(k)[1], "Type")
        /\ VariantsOf(k)[1].Fields = <<>>
        /\ outcomes[k].kind = "yield"
        /\ Len(MessageOf(k).signals) = 2

\* the bit after the last bit of the last field of a definition with fields
LastFieldEnd(def) ==
    def.Fields[Len(def.Fields)].BitOffset + def.Fields[Len(def.Fields)].BitLength

\* C9: on the single path a definition whose last field ends beyond
\* Length x 8 is rejected and no message of its PGN is in the output, and
\* one whose last field ends at or before Length x 8 is emitted
C9_LastFieldFits ==
    \A k \in Processed :
        ( /\ outcomes[k].path = "single"
          /\ VariantsOf(k)[1].Fields # <<>> )
        => LET def == VariantsOf(k)[1]
           IN /\ LastFieldEnd(def) > def.Length * 8
                 => /\ outcomes[k].kind = "skip"
                    /\ _single_to_message(def) = ReturnNone
                    /\ ~ EmittedFor(def.PGN)
              /\ LastFieldEnd(def) <= def.Length * 8
                 => /\ outcomes[k].kind = "yield"
                    /\ MessageOf(k).name = PgnId(def.PGN, def.Id)

\* a definition of Length 8 whose last field has BitOffset 56 and
\* BitLength 16 has been rejected, and the next group was still emitted
C9_Witness ==
    /\ pc = "done"
    /\ \E k \in Processed :
        /\ outcomes[k].path = "single"
        /\ outcomes[k].kind = "skip"
        /\ VariantsOf(k)[1].Length = 8
        /\ Len(VariantsOf(k)[1].Fields) = 2
        /\ VariantsOf(k)[1].Fields[2].BitOffset = 56
        /\ VariantsOf(k)[1].Fields[2].BitLength = 16
        /\ k < Len(outcomes)
        /\ outcomes[k + 1].kind = "yield"

\* the later variants of a group that have no Match on their first field
Matchless(variants) ==
    { i \in 2..Len(variants) : ~ HasMatch(variants[i]) }

\* C10: when the reference variant has no Match the group gives no message;
\* a later variant without Match adds no choice entry and no signal to the
\* message, and the group is merged as it is without that variant as long
\* as the variant passes the Length and Type test of the merge
C10_MatchlessVariants ==
    \A k \in Processed :
        (outcomes[k].path = "multiplexed" /\ VariantsOf(k)[1].Fields # <<>>)
        => LET variants == VariantsOf(k)
               number == pgns[k].number
           IN /\ ~ HasMatch(variants[1])
                 => /\ outcomes[k].kind # "yield"
                    /\ AllHaveFields(variants) => outcomes[k].kind = "skip"
                    /\ ~ EmittedFor(number)
              /\ (HasMatch(variants[1]) /\ AllHaveFields(variants))
                 => LET kept == SelectSeq(variants, HasMatch)
                        merged == _variants_to_multiplexed_message(number, kept)
                    IN ( /\ merged.kind = "msg"
                         /\ \A i \in Matchless(variants) :
                                /\ ~ TypeLookupRaises(variants[i])
                                /\ IsValidVariant(variants[i]) )
                       => /\ outcomes[k].kind = "yield"
                          /\ MessageOf(k) = merged.msg
              /\ outcomes[k].kind = "yield"
                 => LET msg == MessageOf(k)
                        matches == { variants[i].Fields[1].Match :
                                       i \in { j \in 1..Len(variants) :
                                                 HasMatch(variants[j]) } }
                    IN /\ \A i \in Multiplexers(msg) :
                              DOMAIN msg.signals[i].choices[1] = matches
                       /\ \A i \in 1..Len(msg.signals) :
                              msg.signals[i].multiplexer_ids # None
                              => msg.signals[i].multiplexer_ids[1] \in matches

\* a group whose reference variant lacks Match while the second variant
\* carries one has been skipped, and the group after it was emitted
C10_Witness ==
    /\ pc = "done"
    /\ Len(outcomes) = 2
    /\ outcomes[1].path = "multiplexed"
    /\ outcomes[1].kind = "skip"
    /\ AllHaveFields(VariantsOf(1))
    /\ ~ HasMatch(VariantsOf(1)[1])
    /\ HasMatch(VariantsOf(1)[2])
    /\ \A i \in 1..2 : VariantsOf(1)[i].Length = 7 /\ HasType(VariantsOf(1)[i], "Single")
    /\ outcomes[2].kind = "yield"

\* a group whose second variant lacks Match has been merged from the
\* reference variant alone
C10_MergedWithoutMatchless ==
    \E k \in Processed :
        /\ outcomes[k].path = "multiplexed"
        /\ outcomes[k].kind = "yield"
        /\ Matchless(VariantsOf(k)) # {}
        /\ Len(VariantsOf(k)[2].Fields) > 1

\* the identifier of the J1939 layout for PGN number p, by arithmetic
LayoutFrameId(p) ==
    6 * Pow2(26) + ((p \div Pow2(16)) % 2) * Pow2(24)
    + ((p \div 256) % 256) * Pow2(16) + (p % 256) * 256 + 254

\* the largest declared Length of the definitions of the k-th group
DeclaredLength(k) ==
    SeqMax([ i \in 1..Len(VariantsOf(k)) |-> VariantsOf(k)[i].Length ])

\* C13: every yielded message, whichever path built it, has payload length
\* 8, the extended frame flag, protocol j1939 and the frame identifier of
\* its group's PGN number, whatever Length its definitions declare
C13_MessageEnvelope ==
    /\ \A i \in 1..Len(yielded) :
           /\ yielded[i].length = 8
           /\ yielded[i].is_extended_frame
           /\ yielded[i].protocol = "j1939"
    /\ \A k \in Processed :
           outcomes[k].kind = "yield"
           => /\ MessageOf(k).frame_id = LayoutFrameId(pgns[k].number)
              /\ MessageOf(k).length = 8

\* a merged group of declared length 7 and a definition of Length 3 have
\* both been yielded with length 8
C13_Witness ==
    /\ pc = "done"
    /\ Len(yielded) = 2
    /\ outcomes[1].path = "multiplexed" /\ outcomes[1].kind = "yield"
    /\ DeclaredLength(1) = 7
    /\ outcomes[2].path = "single" /\ outcomes[2].kind = "yield"
    /\ DeclaredLength(2) = 3
    /\ yielded[1].length = 8 /\ yielded[2].length = 8

\* the variant is at least 8 bytes long or has the Type tag "Fast"
IsFastVariant(v) == v.Length >= 8 \/ HasType(v, "Fast")

\* C14: a group of variants that passes the discriminator validation and
\* holds a variant of Length >= 8 or of Type "Fast" gives no message at
\* all; a multiplexed message is yielded only when every variant has
\* Length < 8 and a Type other than "Fast"
C14_FastVariantRejectsMerge ==
    \A k \in Processed :
        ( /\ outcomes[k].path = "multiplexed"
          /\ AllHaveFields(VariantsOf(k))
          /\ _validate_multiplex_field(VariantsOf(k)) )
        => LET variants == VariantsOf(k)
               all == 1..Len(variants)
           IN /\ (\E i \in all : IsFastVariant(variants[i]))
                 => /\ outcomes[k].kind # "yield"
                    /\ ~ EmittedFor(pgns[k].number)
                    /\ (\A i \in all : HasKey(variants[i], "Type"))
                           => outcomes[k].kind = "skip"
              /\ outcomes[k].kind = "yield"
                 => \A i \in all :
                        /\ variants[i].Length < 8
                        /\ HasKey(variants[i], "Type")
                        /\ variants[i].Type # "Fast"

\* a validated pair of one variant of Length 8 and one of Length 7, both
\* of Type "Single", has been skipped as a whole
C14_Witness ==
    \E k \in Processed :
        /\ outcomes[k].path = "multiplexed"
        /\ outcomes[k].kind = "skip"
        /\ Len(VariantsOf(k)) = 2
        /\ AllHaveFields(VariantsOf(k))
        /\ _validate_multiplex_field(VariantsOf(k))
        /\ VariantsOf(k)[1].Length = 7 /\ HasType(VariantsOf(k)[1], "Single")
        /\ VariantsOf(k)[2].Length = 8 /\ HasType(VariantsOf(k)[2], "Single")
        /\ Len(VariantsOf(k)[1].Fields) > 1
        /\ yielded = <<>>

\* C16: in every yielded multiplexed message the signal names are pairwise
\* distinct, the case signals among themselves and against the
\* discriminator signal, and every case signal is tagged with one Match
\* value and refers to the discriminator signal
C16_SignalNamesDistinct ==
    \A k \in Processed :
        (outcomes[k].path = "multiplexed" /\ outcomes[k].kind = "yield")
        => LET signals == MessageOf(k).signals
           IN /\ \A i, j \in 1..Len(signals) :
                      i # j => signals[i].name # signals[j].name
              /\ \A i \in 2..Len(signals) :
                      /\ Len(signals[i].multiplexer_ids) = 1
                      /\ signals[i].multiplexer_signal = Some(signals[1])

\* C17: in every message yielded on the single path every field of the
\* definition, not only the last one, ends at or before Length x 8
C17_EveryFieldFits ==
    \A k \in Processed :
        (outcomes[k].path = "single" /\ outcomes[k].kind = "yield")
        => LET def == VariantsOf(k)[1]
           IN \A i \in 1..Len(def.Fields) :
                  def.Fields[i].BitOffset + def.Fields[i].BitLength
                      <= def.Length * 8

\* the variants of a list whose first field carries a Match value
Contributing(variants) == { i \in 1..Len(variants) : HasMatch(variants[i]) }

\* C15: in every yielded multiplexed message the variants that carry a
\* Match value all have the reference variant's first field Id, BitOffset
\* and BitLength, their Match values are pairwise distinct, and the choice
\* map has one entry for each of them, also when variants share an Id
C15_OneDiscriminator ==
    \A k \in Processed :
        (outcomes[k].path = "multiplexed" /\ outcomes[k].kind = "yield")
        => LET variants == VariantsOf(k)
               ref_field0 == variants[1].Fields[1]
               with == Contributing(variants)
           IN /\ \A i \in with :
                     /\ variants[i].Fields[1].Id = ref_field0.Id
                     /\ variants[i].Fields[1].BitOffset = ref_field0.BitOffset
                     /\ variants[i].Fields[1].BitLength = ref_field0.BitLength
              /\ \A i, j \in with :
                     i # j => variants[i].Fields[1].Match # variants[j].Fields[1].Match
              /\ \A i \in Multiplexers(MessageOf(k)) :
                     Cardinality(DOMAIN MessageOf(k).signals[i].choices[1])
                         = Cardinality(with)

\* f"{id_}_{i}"
Suffixed(id_, i) == id_ \o "_" \o ToString(i)

\* what one call of get_unique_id may do to the reserved set: the raw Id is
\* returned when it is free, else <id>_<i> for the smallest i >= 1 whose
\* <id>_<i> is free, with i at most the size of the set; the set gains the
\* returned Id and nothing else
SmallestFreeSuffix ==
    (unique_ids' # unique_ids)
    => LET id_ == raw_ids[Len(unique_ids) + 1]
           new_id == unique_ids'[Len(unique_ids')]
       IN /\ Len(unique_ids') = Len(unique_ids) + 1
          /\ id_ \notin reserved_ids => new_id = id_
          /\ id_ \in reserved_ids
             => \E i \in 1..Cardinality(reserved_ids) :
                    /\ new_id = Suffixed(id_, i)
                    /\ \A j \in 1..(i - 1) : Suffixed(id_, j) \in reserved_ids
          /\ new_id \notin reserved_ids
          /\ reserved_ids' = reserved_ids \cup {new_id}

\* C18: every call of get_unique_id returns, with the raw Id or with the
\* smallest free <id>_<i>, i >= 1 and i at most the size of the reserved
\* set, and adds exactly the returned Id to the set
C18_SmallestFreeSuffix == [][SmallestFreeSuffix]_vars

\* a call has gone past two taken suffixes: x, x_1 and x_2 were reserved
\* and the field named x came back as x_3
C18_Witness ==
    /\ Len(unique_ids) = 1
    /\ raw_ids[1] = "x"
    /\ unique_ids[1] = "x_3"
    /\ reserved_ids = {"x", "x_1", "x_2", "x_3"}

(***************************************************************************)
(* Order of the output and repeated reads: claims                          *)
(***************************************************************************)
\* the records of the input, in file order
Records == _json_data.PGNs

\* the index of the first record that carries the PGN number
FirstOccurrenceOf(number) ==
    CHOOSE i \in 1..Len(Records) :
        /\ Records[i].PGN = number
        /\ \A j \in 1..(i - 1) : Records[j].PGN # number

\* the records that carry the PGN number, in file order
RecordsOf(number) == SelectSeq(Records, LAMBDA r : r.PGN = number)

\* the iterations that yielded, in loop order
YieldingIterations == SelectSeq(outcomes, LAMBDA o : o.kind = "yield")

\* C11: the groups are the PGN numbers of the input in the order of their
\* first occurrence, each with its records in file order; the loop visits
\* them in that order, one iteration per group; the yielded messages are
\* those of the iterations that yielded, one each and in the same order; a
\* group whose iteration did not yield has no message; get_database returns
\* the yielded sequence as it is
C11_OutputFollowsGroups ==
    /\ pc # "start"
       => /\ { pgns[k].number : k \in 1..Len(pgns) }
                = { Records[i].PGN : i \in 1..Len(Records) }
          /\ \A k, l \in 1..Len(pgns) :
                 k < l => FirstOccurrenceOf(pgns[k].number)
                              < FirstOccurrenceOf(pgns[l].number)
          /\ \A k \in 1..Len(pgns) :
                 pgns[k].variants = RecordsOf(pgns[k].number)
          /\ Len(outcomes) = group_idx - 1
          /\ Len(outcomes) <= Len(pgns)
          /\ \A k \in Processed : outcomes[k].number = pgns[k].number
    /\ Len(yielded) = Len(YieldingIterations)
    /\ \A m \in 1..Len(yielded) :
           yielded[m].frame_id = LayoutFrameId(YieldingIterations[m].number)
    /\ \A k \in Processed :
           outcomes[k].kind # "yield"
           => \A m \in 1..Len(yielded) :
                  yielded[m].frame_id # LayoutFrameId(outcomes[k].number)
    /\ pc = "returned" => databases[Len(databases)].messages = yielded

\* the records of one PGN number stand before and after the record of
\* another, both groups yielded, and the message of the first comes first
C11_Witness ==
    /\ pc = "returned"
    /\ Len(Records) = 3
    /\ Records[1].PGN = Records[3].PGN
    /\ Records[2].PGN # Records[1].PGN
    /\ Len(pgns) = 2
    /\ Len(pgns[1].variants) = 2
    /\ Len(yielded) = 2
    /\ yielded[1].frame_id = LayoutFrameId(Records[1].PGN)
    /\ yielded[2].frame_id = LayoutFrameId(Records[2].PGN)
    /\ databases[1].messages = yielded

\* the raw Id of the first field of the first record of the PGN number
FirstFieldId(number) == RecordsOf(number)[1].Fields[1].Id

\* C12: the Databases that get_database returned for one input carry the
\* same sequence of messages, frame identifiers, names and signals alike,
\* whatever the clock said at each call; the first signal of every message
\* has the raw Id of its first field, so no Id reserved for another message
\* or by an earlier read was in its reserved set; the clock shows in the
\* version string only
C12_ReadsAgree ==
    /\ \A i, j \in 1..Len(databases) :
           databases[i].messages = databases[j].messages
    /\ \A i \in 1..Len(databases) :
           \E now \in Clock : databases[i].version = "Canboat export " \o now
    /\ \A m \in 1..Len(yielded) :
           yielded[m].signals[1].name
               = FirstFieldId(YieldingIterations[m].number)
    /\ \A i \in 1..Len(databases) :
           \A m \in 1..Len(databases[i].messages) :
               databases[i].messages[m].signals[1].name = "a"

\* two reads at different clock values returned two messages each; both
\* messages needed the Id "a" and a suffixed Id after it
C12_Witness ==
    /\ Len(databases) = 2
    /\ databases[1].version # databases[2].version
    /\ Len(databases[1].messages) = 2
    /\ databases[2].messages = databases[1].messages
    /\ \A m \in 1..2 :
           /\ databases[2].messages[m].signals[1].name = "a"
           /\ \E s \in 2..Len(databases[2].messages[m].signals) :
                  databases[2].messages[m].signals[s].name \in {"a_1", "m0_a_1"}

====
